---- MODULE Spec2Model ----
(***************************************************************************)
(* Model of src/open_r1/code_rewards.py: the unit-test reward function     *)
(* (code_based_on_unittests_reward), its curriculum-aware wrapper          *)
(* (curriculum_aware_reward_fn), the sandbox dispatcher (run_async,        *)
(* run_script, run_async_from_sync) and the evaluation script that is sent *)
(* to the sandbox (evaluate_code).                                         *)
(*                                                                         *)
(* Strings are sequences of symbols.  The symbols are single characters    *)
(* ("1", "2", " ", "\n") and, for labels, whole words ("basic", ...), so a *)
(* label padded with a blank is <<" ", "basic">>.  Rewards are counted in  *)
(* units of 0.25 (every weight of the script is 0.25, and sums of quarters *)
(* are exact in binary floating point).                                    *)
(***************************************************************************)
EXTENDS Integers, Sequences, FiniteSets, TLC

VARIABLES
    available,          \* is_e2b_available(): fixed for the process
    completions,        \* the caller's completions (index-aligned with verification_info)
    verification_info,  \* the caller's verification_info objects; they outlive a call
    budget,             \* number of calls the caller still makes
    pc,                 \* position of the current call: idle, create, gather, kill, done
    entry,              \* entry point of the current call: "score" or "curriculum"
    epoch,              \* kwargs["epoch"] of the current call
    allowed_labels,     \* label_schedule(current_epoch) of the last curriculum-aware call
    scripts,            \* the script payloads of the current call
    language,           \* local `language` of the facade
    sbx,                \* the sandbox context: none, live, killed
    task,               \* state of each run_script task of the dispatch
    resp,               \* execution.text each run_code request got back
    result,             \* return value of each finished run_script task
    rewards,            \* the list the call returned
    outcome,            \* how the call ended: none, rewards, ImportError, ValueError, IndexError
    creates,            \* AsyncSandbox.create calls issued in this call
    runs,               \* sbx.run_code calls issued in this call
    kills,              \* sbx.kill calls issued in this call
    kill_raised,        \* the sbx.kill call of this call threw
    out_of_order,       \* a request returned while one issued before it was still running
    original,           \* the test cases as first supplied by the caller
    supplied,           \* the test cases as they were when the current call was made
    min_epoch           \* least epoch of the curriculum-aware calls made so far

vars == <<available, completions, verification_info, budget, pc, entry, epoch,
          allowed_labels,
          scripts, language, sbx, task, resp, result, rewards, outcome,
          creates, runs, kills, kill_raised, out_of_order, original, supplied,
          min_epoch>>

----------------------------------------------------------------------------
(* Bounds of the model. *)

MaxN == 3           \* completions per batch (Spec)
MaxCalls == 2       \* calls on the same verification_info (SpecCurriculum)
MaxCases == 2       \* test cases per verification_info (SpecCurriculum)
MaxEvalCases == 5   \* test cases per verification_info (SpecEval)
MaxEpoch == 5       \* largest epoch the caller passes

----------------------------------------------------------------------------
(* Python values. *)

None == <<"<None>">>

Min(a, b) == IF a <= b THEN a ELSE b

Whitespace == {" ", "\n"}

RECURSIVE lstrip(_)
lstrip(s) ==
    IF s # <<>> /\ Head(s) \in Whitespace THEN lstrip(Tail(s)) ELSE s

RECURSIVE rstrip(_)
rstrip(s) ==
    IF s # <<>> /\ s[Len(s)] \in Whitespace THEN rstrip(SubSeq(s, 1, Len(s) - 1)) ELSE s

\* str.strip()
strip(s) == rstrip(lstrip(s))

\* str.split('\n'): the pieces between the newlines; "" splits to [""]
RECURSIVE split(_)
split(s) ==
    LET RECURSIVE first(_)
        first(t) == IF t = <<>> \/ Head(t) = "\n" THEN <<>> ELSE <<Head(t)>> \o first(Tail(t))
        n == Len(first(s))
    IN  IF n = Len(s) THEN <<s>> ELSE <<first(s)>> \o split(SubSeq(s, n + 2, Len(s)))

\* str(passed_weight) of a float that is `units` quarters
IntStr == <<"0", "1", "2", "3", "4", "5">>
FracStr == <<"0", "25", "5", "75">>
str(units) == <<IntStr[(units \div 4) + 1], ".", FracStr[(units % 4) + 1]>>

\* float(text): the value in quarters, or the exception raised
float(text) ==
    IF text = None THEN [exc |-> "TypeError", value |-> 0]
    ELSE IF Len(text) = 3 /\ text[2] = "."
              /\ (\E i \in 1..Len(IntStr) : IntStr[i] = text[1])
              /\ (\E f \in 1..Len(FracStr) : FracStr[f] = text[3])
         THEN [exc |-> "none",
               value |-> 4 * ((CHOOSE i \in 1..Len(IntStr) : IntStr[i] = text[1]) - 1)
                         + ((CHOOSE f \in 1..Len(FracStr) : FracStr[f] = text[3]) - 1)]
         ELSE [exc |-> "ValueError", value |-> 0]

----------------------------------------------------------------------------
(* extract_code: a completion's content is the sequence of its fenced code  *)
(* blocks, each [lang, code]; the text between the blocks never matches.    *)

extract_code(completion, lang) ==
    LET matches == SelectSeq(completion, LAMBDA b : b.lang = lang)
    IN  IF Len(matches) >= 1 THEN matches[Len(matches)] .code ELSE <<>>

----------------------------------------------------------------------------
(* The evaluation script (evaluation_script_template).                      *)

\* a table whose weights are 0.5
weights_doubled(label) ==
    IF label \in {<<"basic">>, <<"medium">>, <<"high">>, <<"edge">>} THEN 2 ELSE 0

\* the weights table of evaluate_code, in quarters; weights.get(label, 0.0)
weights(label) ==
    CASE label = <<"basic">>  -> 1
      [] label = <<"medium">> -> 1
      [] label = <<"high">>   -> 1
      [] label = <<"edge">>   -> 1
      [] OTHER                -> 0

\* case.get("label")
get_label(case) == IF case.has_label THEN case.label ELSE None

\* subprocess.run(["python3", "-c", code], input=..., timeout=exec_timeout):
\* what python3 does with the snippets of the model.
\*   ""       exits 0 and prints nothing
\*   "cat"    copies its standard input to its standard output, exits 0
\*   "exit1"  copies its standard input, then exits 1
\*   "hang"   does not finish within exec_timeout (TimeoutExpired)
\*   other    is not Python: exits 1 and prints nothing
subprocess_run(code, input) ==
    CASE code = <<>>        -> [timeout |-> FALSE, returncode |-> 0, stdout |-> <<>>]
      [] code = <<"cat">>   -> [timeout |-> FALSE, returncode |-> 0, stdout |-> input]
      [] code = <<"exit1">> -> [timeout |-> FALSE, returncode |-> 1, stdout |-> input]
      [] code = <<"hang">>  -> [timeout |-> TRUE,  returncode |-> 0, stdout |-> <<>>]
      [] OTHER              -> [timeout |-> FALSE, returncode |-> 1, stdout |-> <<>>]

\* a comparison that also requires the two outputs to have as many lines
zip_all_strict(lines1, lines2, all_correct) ==
    /\ all_correct
    /\ Len(lines1) = Len(lines2)
    /\ \A j \in 1..Len(lines1) : strip(lines1[j]) = strip(lines2[j])

\* the loop over zip(output.split('\n'), case['output'].split('\n'))
RECURSIVE zip_all_correct(_, _, _)
zip_all_correct(lines1, lines2, all_correct) ==
    IF lines1 = <<>> \/ lines2 = <<>> THEN all_correct
    ELSE zip_all_correct(Tail(lines1), Tail(lines2),
                         all_correct /\ strip(Head(lines1)) = strip(Head(lines2)))

\* one iteration of `for case in test_cases`: the weight added to passed_weight
case_weight(case) ==
    LET label == IF get_label(case) = None THEN <<"minimal">> ELSE get_label(case)
    IN  weights(strip(label))

\* a verdict that forgets the check of process.returncode
case_passed_any_exit(code, case) ==
    zip_all_correct(split(strip(subprocess_run(code, case.input).stdout)),
                    split(case.output), TRUE)

\* lines 88-105: the subprocess exited 0 and every zipped line pair matches
case_passed(code, case) ==
    LET process == subprocess_run(code, case.input)
    IN  /\ process.returncode = 0
        /\ zip_all_correct(split(strip(process.stdout)), split(case.output), TRUE)

\* evaluate_code(code, test_cases): [raised, passed_weight]; an uncaught
\* TimeoutExpired of subprocess.run ends the script without a value
RECURSIVE evaluate_loop(_, _, _)
evaluate_loop(code, test_cases, passed_weight) ==
    IF test_cases = <<>> THEN [raised |-> FALSE, passed_weight |-> passed_weight]
    ELSE LET case == Head(test_cases)
         IN  IF subprocess_run(code, case.input).timeout
             THEN [raised |-> TRUE, passed_weight |-> 0]
             ELSE evaluate_loop(code, Tail(test_cases),
                                IF case_passed(code, case)
                                THEN passed_weight + case_weight(case)
                                ELSE passed_weight)

evaluate_code(code, test_cases) == evaluate_loop(code, test_cases, 0)

\* evaluation_script_template.format(code=json.dumps(code),
\*     test_cases=json.dumps(json.dumps(test_cases))); the script decodes both
build_script(code, info) == [code |-> code, test_cases |-> info.test_cases]

\* execution.text of a run that went through: the text of the script's last
\* expression, None when the script raised
execution_text(script) ==
    LET r == evaluate_code(script.code, script.test_cases)
    IN  IF r.raised THEN None ELSE str(r.passed_weight)

----------------------------------------------------------------------------
(* The curriculum. *)

\* a schedule whose thresholds are off by one
label_schedule_late(e) ==
    IF e <= 1 THEN <<<<"basic">>>>
    ELSE IF e <= 2 THEN <<<<"basic">>, <<"medium">>>>
    ELSE IF e <= 3 THEN <<<<"basic">>, <<"medium">>, <<"high">>>>
    ELSE <<<<"basic">>, <<"medium">>, <<"high">>, <<"edge">>>>

label_schedule(e) ==
    IF e < 1 THEN <<<<"basic">>>>
    ELSE IF e < 2 THEN <<<<"basic">>, <<"medium">>>>
    ELSE IF e < 3 THEN <<<<"basic">>, <<"medium">>, <<"high">>>>
    ELSE <<<<"basic">>, <<"medium">>, <<"high">>, <<"edge">>>>

\* x in allowed_labels
in_list(x, list) == \E i \in 1..Len(list) : list[i] = x

\* a gate whose default label is "basic"
gate_keeps_default_basic(case, allowed) ==
    LET label == get_label(case)
    IN  in_list(IF label = None \/ label = <<>> THEN <<"basic">> ELSE label, allowed)

\* (case.get("label") or "minimal") in allowed_labels
gate_keeps(case, allowed) ==
    LET label == get_label(case)
    IN  in_list(IF label = None \/ label = <<>> THEN <<"minimal">> ELSE label,
                allowed)

\* a gate whose filtered lists are dropped
curriculum_filter_none(infos, allowed) == infos

\* a gate that filters the test cases of the first call every time
curriculum_filter_fresh(infos, allowed) ==
    [i \in 1..Len(infos) |->
        [infos[i] EXCEPT !.test_cases =
            SelectSeq(original[i].test_cases, LAMBDA c : gate_keeps(c, allowed))]]

\* the loop `for info in kwargs["verification_info"]` of curriculum_aware_reward_fn
curriculum_filter(infos, allowed) ==
    [i \in 1..Len(infos) |->
        [infos[i] EXCEPT !.test_cases =
            SelectSeq(infos[i].test_cases, LAMBDA c : gate_keeps(c, allowed))]]

----------------------------------------------------------------------------
(* The inputs the caller supplies. *)

Block(lang, code) == [lang |-> lang, code |-> code]
Turn(role, content) == [role |-> role, content |-> content]

\* one assistant turn with a python block that copies stdin to stdout
CompletionCat == <<Turn("assistant", <<Block("python", <<"cat">>)>>)>>
\* two turns; the last turn has two python blocks, the last one crashes
CompletionExit1 ==
    <<Turn("assistant", <<Block("python", <<"cat">>)>>),
      Turn("assistant", <<Block("python", <<"cat">>), Block("python", <<"exit1">>)>>)>>
\* no python block at all
CompletionNoCode == <<Turn("assistant", <<Block("javascript", <<"cat">>)>>)>>
\* a python block that never finishes
CompletionHang == <<Turn("assistant", <<Block("python", <<"hang">>)>>)>>

Case(label, input, output) ==
    [has_label |-> TRUE, label |-> label, input |-> input, output |-> output]
Unlabelled(input, output) ==
    [has_label |-> FALSE, label |-> <<>>, input |-> input, output |-> output]

\* test cases a copying snippet passes / fails
BasicPass  == Case(<<"basic">>, <<"1">>, <<"1">>)
BasicFail  == Case(<<"basic">>, <<"1">>, <<"2">>)
MediumPass == Case(<<"medium">>, <<"1", " ", "\n">>, <<" ", "1">>)
HighFail   == Case(<<"high">>, <<"1", "\n", "2">>, <<"1", "\n", "1">>)
EdgePass   == Case(<<"edge">>, <<"1", "\n", "2">>, <<"1">>)
MinimalPass == Case(<<"minimal">>, <<"2">>, <<"2">>)
NoLabelPass == Unlabelled(<<"2">>, <<"2">>)
BlankPass  == Case(<<>>, <<"2">>, <<"2">>)
PaddedPass == Case(<<" ", "basic">>, <<"2">>, <<"2">>)
UnknownPass == Case(<<"x">>, <<"2">>, <<"2">>)
SpacePass  == Case(<<" ">>, <<"2">>, <<"2">>)
\* expects a second line the snippet never prints
ShortPass  == Case(<<"high">>, <<"1">>, <<"1", "\n", "2">>)

AllCases ==
    {BasicPass, BasicFail, MediumPass, HighFail, EdgePass, MinimalPass, NoLabelPass,
     BlankPass, PaddedPass, UnknownPass, SpacePass, ShortPass}

\* all sequences over S of length at most n
RECURSIVE SeqsUpTo(_, _)
SeqsUpTo(S, n) ==
    IF n = 0 THEN {<<>>}
    ELSE LET shorter == SeqsUpTo(S, n - 1)
         IN  shorter \cup {Append(q, x) : q \in shorter, x \in S}

\* the epochs the caller passes: the integers from -1 on
Epochs == (0 - 1)..MaxEpoch

----------------------------------------------------------------------------
(* Initial states: a caller holding a batch, no call made yet. *)

InitWith(Ns, Completions, Languages, TestCaseLists, Budgets) ==
    /\ available \in BOOLEAN
    /\ \E n \in Ns :
          /\ completions \in [1..n -> Completions]
          /\ verification_info \in
                [1..n -> [language : Languages, test_cases : TestCaseLists]]
    /\ budget \in Budgets
    /\ pc = "idle"
    /\ entry = "score"
    /\ epoch = 0
    /\ allowed_labels = <<>>
    /\ scripts = <<>>
    /\ language = "python"
    /\ sbx = "none"
    /\ task = <<>>
    /\ resp = <<>>
    /\ result = <<>>
    /\ rewards = <<>>
    /\ outcome = "none"
    /\ creates = 0
    /\ runs = 0
    /\ kills = 0
    /\ kill_raised = FALSE
    /\ out_of_order = FALSE
    /\ original = verification_info
    /\ supplied = verification_info
    /\ min_epoch = MaxEpoch + 1    \* above every epoch: no curriculum-aware call yet

\* batches of up to MaxN completions, one call
Init ==
    InitWith(0..MaxN, {CompletionCat}, {"python", "javascript"},
             {<<>>, <<BasicPass>>}, {1})

\* one completion, every kind of label, up to MaxCalls calls on the same objects
InitCurriculum ==
    InitWith({1}, {CompletionCat}, {"python"},
             SeqsUpTo({BasicPass, MediumPass, EdgePass, NoLabelPass, PaddedPass, BlankPass},
                      MaxCases),
             {MaxCalls})

\* one completion, every test case of the model, one call
InitLabels ==
    InitWith({1}, {CompletionCat, CompletionExit1, CompletionHang}, {"python"},
             SeqsUpTo(AllCases, MaxCases), {1})

\* one completion, long test-case lists, one call
InitEval ==
    InitWith({1}, {CompletionCat, CompletionExit1, CompletionNoCode, CompletionHang},
             {"python"},
             SeqsUpTo({BasicPass, HighFail, MinimalPass}, MaxEvalCases), {1})

----------------------------------------------------------------------------
(* The facade: code_based_on_unittests_reward up to the dispatch.           *)

\* the call ends without a dispatch
EndCall(how, list) ==
    /\ pc' = "done"
    /\ outcome' = how
    /\ rewards' = list
    /\ scripts' = <<>>
    /\ task' = <<>>
    /\ resp' = <<>>
    /\ result' = <<>>
    /\ UNCHANGED language

\* lines 132 on: the dispatch starts with the scripts built at lines 121-126
start_dispatch(infos) ==
    LET code_snippets ==
            [i \in 1..Len(completions) |->
                extract_code(completions[i][Len(completions[i])].content, "python")]
        built == [i \in 1..Min(Len(code_snippets), Len(infos)) |->
                    build_script(code_snippets[i], infos[i])]
    IN  /\ pc' = "create"
        /\ outcome' = "none"
        /\ rewards' = <<>>
        /\ scripts' = built
        /\ language' = infos[1].language
        /\ task' = [i \in 1..Len(built) |-> "new"]
        /\ resp' = [i \in 1..Len(built) |-> None]
        /\ result' = [i \in 1..Len(built) |-> 0]

\* a facade that dispatches without the check of lines 129-130
dispatch_without_language_check(infos) ==
    IF Len(infos) = 0 THEN EndCall("IndexError", <<>>) ELSE start_dispatch(infos)

\* lines 127-132: verification_info[0]["language"] and the language check
language_check(infos) ==
    IF Len(infos) = 0 THEN EndCall("IndexError", <<>>)
    ELSE IF \E i \in 1..Len(infos) : infos[i].language # infos[1].language
         THEN EndCall("ValueError", <<>>)
         ELSE start_dispatch(infos)

\* a facade without the check of lines 59-63
reward_without_capability_check(infos) == language_check(infos)

\* lines 59-138 on the (possibly filtered) verification_info, up to the dispatch
code_based_on_unittests_reward(infos) ==
    IF ~available THEN EndCall("ImportError", <<>>) ELSE language_check(infos)

\* a new call starts: what every call resets
BeginCall ==
    /\ pc \in {"idle", "done"}
    /\ budget > 0
    /\ budget' = budget - 1
    /\ sbx' = "none"
    /\ creates' = 0
    /\ runs' = 0
    /\ kills' = 0
    /\ kill_raised' = FALSE
    /\ out_of_order' = FALSE
    /\ supplied' = verification_info
    /\ UNCHANGED <<available, completions, original>>

\* score(completions, verification_info)
Score ==
    /\ BeginCall
    /\ entry' = "score"
    /\ code_based_on_unittests_reward(verification_info)
    /\ UNCHANGED <<verification_info, epoch, allowed_labels, min_epoch>>

\* score_with_curriculum(completions, verification_info, epoch)
curriculum_aware_reward_fn(current_epoch) ==
    /\ BeginCall
    /\ entry' = "curriculum"
    /\ epoch' = current_epoch
    /\ min_epoch' = Min(min_epoch, current_epoch)
    /\ allowed_labels' = label_schedule(current_epoch)
    /\ verification_info' = curriculum_filter(verification_info, allowed_labels')
    /\ code_based_on_unittests_reward(verification_info')

ScoreWithCurriculum == \E e \in Epochs : curriculum_aware_reward_fn(e)

----------------------------------------------------------------------------
(* The dispatcher: run_async_from_sync, run_async, run_script.              *)

Tasks == 1..Len(task)

\* a fallback that forgets the length of the batch
facade_except_empty == <<>>

\* except Exception in code_based_on_unittests_reward (lines 134-136), reached
\* through the re-raise of run_async_from_sync (lines 26-28)
facade_except == [i \in 1..Len(completions) |-> 0]

\* a parse failure reported as a negative sentinel
run_script_sentinel(text) == IF float(text).exc = "none" THEN float(text).value ELSE 0 - 1

\* run_script after run_code returned: float(execution.text) under its excepts
run_script(text) == IF float(text).exc = "none" THEN float(text).value ELSE 0

\* results collected last task first
gather_reversed(results) == [i \in 1..Len(results) |-> results[Len(results) + 1 - i]]

\* asyncio.gather(*tasks) without return_exceptions: the results in task order
gather(results) == [i \in 1..Len(results) |-> results[i]]

\* what sbx.run_code may hand back for a script: the script's value, no text
\* at all, or text that is no number
Responses(script) == {execution_text(script), None, <<"x">>}

FacadeSame == UNCHANGED <<available, completions, verification_info, budget, entry,
                          epoch, allowed_labels, scripts, language, original, supplied, min_epoch>>

\* line 34: AsyncSandbox.create returns the context
Create ==
    /\ pc = "create"
    /\ creates' = creates + 1
    /\ sbx' = "live"
    /\ pc' = "gather"
    /\ UNCHANGED <<task, resp, result, rewards, outcome, runs, kills, kill_raised>>
    /\ UNCHANGED out_of_order
    /\ FacadeSame

\* line 34: AsyncSandbox.create throws; the facade degrades to zeros
CreateRaises ==
    /\ pc = "create"
    /\ creates' = creates + 1
    /\ rewards' = facade_except
    /\ outcome' = "rewards"
    /\ pc' = "done"
    /\ UNCHANGED <<sbx, task, resp, result, runs, kills, kill_raised>>
    /\ UNCHANGED out_of_order
    /\ FacadeSame

\* line 49, first half: task i issues its run_code request.  gather schedules
\* the tasks in list order and each runs up to its first suspension.
IssueRun(i) ==
    /\ pc = "gather"
    /\ task[i] = "new"
    /\ \A j \in 1..(i - 1) : task[j] # "new"
    /\ task' = [task EXCEPT ![i] = "inflight"]
    /\ runs' = runs + 1
    /\ UNCHANGED <<sbx, resp, result, rewards, outcome, creates, kills, kill_raised, pc>>
    /\ UNCHANGED out_of_order
    /\ FacadeSame

\* lines 49-56: the request of task i returns, in any order among the siblings
RunReturns(i) ==
    /\ pc = "gather"
    /\ task[i] = "inflight"
    /\ \A j \in Tasks : task[j] # "new"
    /\ \E text \in Responses(scripts[i]) :
          /\ resp' = [resp EXCEPT ![i] = text]
          /\ result' = [result EXCEPT ![i] = run_script(text)]
    /\ task' = [task EXCEPT ![i] = "done"]
    /\ out_of_order' = (out_of_order \/ \E j \in 1..(i - 1) : task[j] = "inflight")
    /\ UNCHANGED <<sbx, rewards, outcome, creates, runs, kills, kill_raised, pc>>
    /\ FacadeSame

\* line 49: the request of task i throws; the await is outside the try of
\* run_script, so the exception ends the task
RunRaises(i) ==
    /\ pc = "gather"
    /\ task[i] = "inflight"
    /\ \A j \in Tasks : task[j] # "new"
    /\ task' = [task EXCEPT ![i] = "raised"]
    /\ UNCHANGED <<sbx, resp, result, rewards, outcome, creates, runs, kills,
                   kill_raised, pc>>
    /\ UNCHANGED out_of_order
    /\ FacadeSame

\* a wait that ends with the first finished task
GatherFirstCompleted ==
    /\ pc = "gather"
    /\ \E i \in Tasks : task[i] = "done"
    /\ pc' = "kill"
    /\ UNCHANGED <<sbx, task, resp, result, rewards, outcome, creates, runs, kills,
                   kill_raised>>
    /\ UNCHANGED out_of_order
    /\ FacadeSame

\* line 40: every task returned, gather hands the results to run_async
GatherDone ==
    /\ pc = "gather"
    /\ \A i \in Tasks : task[i] = "done"
    /\ pc' = "kill"
    /\ UNCHANGED <<sbx, task, resp, result, rewards, outcome, creates, runs, kills,
                   kill_raised>>
    /\ UNCHANGED out_of_order
    /\ FacadeSame

\* line 40: a task raised, gather raises its exception into run_async, which
\* leaves without reaching line 44; asyncio.run cancels the tasks still
\* running; run_async_from_sync re-raises and the facade degrades to zeros
GatherRaises ==
    /\ pc = "gather"
    /\ \E i \in Tasks : task[i] = "raised"
    /\ task' = [i \in Tasks |-> IF task[i] = "inflight" THEN "cancelled" ELSE task[i]]
    /\ rewards' = facade_except
    /\ outcome' = "rewards"
    /\ pc' = "done"
    /\ UNCHANGED <<sbx, resp, result, creates, runs, kills, kill_raised>>
    /\ UNCHANGED out_of_order
    /\ FacadeSame

\* lines 41-46: sbx.kill() returns and the rewards go back to the caller
Kill ==
    /\ pc = "kill"
    /\ kills' = kills + 1
    /\ sbx' = "killed"
    /\ rewards' = gather(result)
    /\ outcome' = "rewards"
    /\ pc' = "done"
    /\ UNCHANGED <<task, resp, result, creates, runs, kill_raised>>
    /\ UNCHANGED out_of_order
    /\ FacadeSame

\* line 44: sbx.kill() throws; the facade degrades to zeros
KillRaises ==
    /\ pc = "kill"
    /\ kills' = kills + 1
    /\ kill_raised' = TRUE
    /\ rewards' = facade_except
    /\ outcome' = "rewards"
    /\ pc' = "done"
    /\ UNCHANGED <<sbx, task, resp, result, creates, runs>>
    /\ UNCHANGED out_of_order
    /\ FacadeSame

Issue == \E i \in Tasks : IssueRun(i)
Returns == \E i \in Tasks : RunReturns(i)
Raises == \E i \in Tasks : RunRaises(i)

Next ==
    \/ Score
    \/ ScoreWithCurriculum
    \/ Create
    \/ CreateRaises
    \/ Issue
    \/ Returns
    \/ Raises
    \/ GatherDone
    \/ GatherRaises
    \/ Kill
    \/ KillRaises

Spec == Init /\ [][Next]_vars
SpecCurriculum == InitCurriculum /\ [][Next]_vars
SpecEval == InitEval /\ [][Next]_vars
SpecLabels == InitLabels /\ [][Next]_vars

----------------------------------------------------------------------------
(* Properties. *)

N == Len(completions)

\* the call is over and handed the caller a reward list
Returned == pc = "done" /\ outcome = "rewards"

\* the records of the batch declare one language (vacuous for an empty batch)
SameLanguage ==
    \A i, j \in 1..Len(verification_info) :
        verification_info[i].language = verification_info[j].language

RaisedTasks == {i \in Tasks : task[i] = "raised"}

\* C1: if exactly one of the N run requests of a dispatch raises, the call
\* returns a reward list in which that script's reward is 0.0 and every other
\* script has the reward its own run_script produced.
C1_FaultIsolation ==
    (pc = "done" /\ Cardinality(RaisedTasks) = 1)
        => /\ outcome = "rewards"
           /\ Len(rewards) = N
           /\ \A i \in Tasks :
                 /\ task[i] = "raised" => rewards[i] = 0
                 /\ task[i] = "done" => rewards[i] = result[i]

\* C2: a dispatch that created the sandbox context has destroyed it exactly
\* once when it is over, and never destroys it before every run request is done.
C2_KillExactlyOnce ==
    /\ (pc = "done" /\ sbx # "none") => kills = 1
    /\ kills > 0 => \A i \in Tasks : task[i] = "done"

\* C3: with the capability available and one common language, a call on an
\* index-aligned batch of any size N >= 0 returns a list of N rewards.
C3_LengthInvariant ==
    (pc = "done" /\ available /\ SameLanguage)
        => (outcome = "rewards" /\ Len(rewards) = N)

\* C4: when the creation of the context throws, or a run request's exception
\* leaves the dispatcher at the gather, the call returns N zeros instead of
\* raising; after a failed creation no run and no kill is ever issued.
CreationFailed == pc = "done" /\ creates = 1 /\ sbx = "none"
C4_DegradeToZeros ==
    /\ (CreationFailed \/ (pc = "done" /\ RaisedTasks # {}))
          => (outcome = "rewards" /\ rewards = [i \in 1..N |-> 0])
    /\ sbx = "none" => (runs = 0 /\ kills = 0)
C4_Witness == CreationFailed /\ N >= 2 /\ rewards = <<0, 0>>

\* C5: the list a dispatch returns is index-aligned with the scripts: reward i
\* is what run_script made of the response to script i, in whatever order the
\* requests returned.
DispatchReturned == pc = "done" /\ kills = 1 /\ ~kill_raised
C5_IndexAligned ==
    DispatchReturned
        => /\ Len(rewards) = Len(scripts)
           /\ \A i \in 1..Len(scripts) :
                 /\ resp[i] \in Responses(scripts[i])
                 /\ rewards[i] = run_script(resp[i])
C5_Witness ==
    /\ DispatchReturned
    /\ out_of_order
    /\ N >= 2
    /\ rewards[1] # rewards[2]

\* C6: a curriculum-aware call at epoch e scores exactly the originally
\* supplied test cases whose label is in label_schedule(e), whatever the
\* epochs of the earlier calls on the same verification_info were.
OriginalAt(i, e) ==
    SelectSeq(original[i].test_cases, LAMBDA c : gate_keeps(c, label_schedule(e)))
C6_FilterPerCallOnly ==
    (entry = "curriculum" /\ pc = "create")
        => \A i \in 1..Len(scripts) : scripts[i].test_cases = OriginalAt(i, epoch)

\* the sum of the weights of the test cases of `cases` that `code` passes and
\* whose label is one of `allowed`
RECURSIVE PassedAllowedWeight(_, _, _)
PassedAllowedWeight(code, cases, allowed) ==
    IF cases = <<>> THEN 0
    ELSE (IF in_list(get_label(Head(cases)), allowed) /\ case_passed(code, Head(cases))
          THEN weights(get_label(Head(cases))) ELSE 0)
         + PassedAllowedWeight(code, Tail(cases), allowed)

\* the run request of script i handed back a number
Delivered(i) == float(resp[i]).exc = "none"

\* C7: the curriculum-aware reward at epoch e is the sum of the weights of the
\* passed test cases of the call whose label is in label_schedule(e); for one
\* basic and one edge case, both passed, it is 0.25 at epoch 0 and 0.5 at epoch 5.
C7_CurriculumReward ==
    (DispatchReturned /\ entry = "curriculum")
        => \A i \in 1..N : Delivered(i) =>
              /\ rewards[i] = PassedAllowedWeight(scripts[i].code, supplied[i].test_cases,
                                                  label_schedule(epoch))
              /\ (supplied[i].test_cases = <<BasicPass, EdgePass>> /\ epoch = 0)
                    => rewards[i] = 1
              /\ (supplied[i].test_cases = <<BasicPass, EdgePass>> /\ epoch = 5)
                    => rewards[i] = 2
C7_Witness ==
    /\ DispatchReturned
    /\ entry = "curriculum"
    /\ epoch = 5
    /\ supplied[1].test_cases = <<BasicPass, EdgePass>>
    /\ Delivered(1)
    /\ rewards = <<2>>

\* the number of test cases of `cases` whose label carries a weight
WeightedCases(cases) == Cardinality({k \in 1..Len(cases) : case_weight(cases[k]) > 0})

\* C8 as claimed: every reward lies in [0, 1], that is within 0..4 quarters.
C8_RewardInUnitInterval ==
    \A i \in 1..Len(rewards) : 0 <= rewards[i] /\ rewards[i] <= 4

\* C8: every reward lies between 0 and 0.25 times the number of test cases
\* with a weighted label of the call, so within [0, 1] when there are at most
\* four of them.
C8_RewardBound ==
    \A i \in 1..Len(rewards) :
        /\ 0 <= rewards[i]
        /\ rewards[i] <= WeightedCases(supplied[i].test_cases)
        /\ WeightedCases(supplied[i].test_cases) <= 4 => rewards[i] <= 4
C8_Witness ==
    /\ Returned
    /\ WeightedCases(supplied[1].test_cases) = 5
    /\ rewards = <<5>>

\* no sandbox operation was performed in this call
NoSandboxCall == creates = 0 /\ runs = 0 /\ kills = 0 /\ sbx = "none"

\* C9: without the sandbox capability every call fails with ImportError and
\* performs no sandbox operation.
C9_ConfigurationError ==
    ~available
        => /\ NoSandboxCall
           /\ pc \in {"idle", "done"}
           /\ pc = "done" => outcome = "ImportError"
C9_Witness ==
    /\ ~available
    /\ pc = "done"
    /\ entry = "score"
    /\ N >= 1
    /\ outcome = "ImportError"

\* C10 as claimed: a batch of mixed languages fails with ValueError.
C10_MixedLanguagesFail ==
    (pc = "done" /\ ~SameLanguage) => (outcome = "ValueError" /\ NoSandboxCall)

\* C10: with the capability available, a batch of mixed languages fails with
\* ValueError and performs no sandbox operation: the check precedes the dispatch.
C10_ValidationError ==
    (available /\ ~SameLanguage)
        => /\ NoSandboxCall
           /\ pc \in {"idle", "done"}
           /\ pc = "done" => outcome = "ValueError"
C10_Witness ==
    /\ available
    /\ ~SameLanguage
    /\ pc = "done"
    /\ outcome = "ValueError"

\* the set of the elements of a list
Range(list) == {list[i] : i \in 1..Len(list)}

\* a curriculum-aware call has been made; allowed_labels is its schedule
Gated == entry = "curriculum" /\ pc # "idle"

\* C11: label_schedule(e) is {basic} for e < 1, {basic, medium} for
\* 1 <= e < 2, {basic, medium, high} for 2 <= e < 3 and all four labels for
\* e >= 3, and label_schedule(e1) is a subset of label_schedule(e2) for e1 <= e2.
C11_LabelSchedule ==
    /\ Gated =>
          /\ epoch < 1 => Range(allowed_labels) = {<<"basic">>}
          /\ (1 <= epoch /\ epoch < 2)
                => Range(allowed_labels) = {<<"basic">>, <<"medium">>}
          /\ (2 <= epoch /\ epoch < 3)
                => Range(allowed_labels) = {<<"basic">>, <<"medium">>, <<"high">>}
          /\ epoch >= 3
                => Range(allowed_labels) = {<<"basic">>, <<"medium">>, <<"high">>, <<"edge">>}
          /\ Range(label_schedule(min_epoch)) \subseteq Range(allowed_labels)
          /\ \A e1 \in Epochs :
                e1 <= epoch => Range(label_schedule(e1)) \subseteq Range(allowed_labels)
C11_Witness ==
    /\ Gated
    /\ epoch = 2
    /\ min_epoch = 0
    /\ Range(allowed_labels) = {<<"basic">>, <<"medium">>, <<"high">>}

\* C12: after the gate has run at any epoch no test case of the batch is
\* labelled "minimal", unlabelled or blank, and every remaining test case has
\* a label of label_schedule(epoch).
C12_GateRemovesMinimal ==
    Gated =>
        \A i \in 1..Len(verification_info) :
            \A k \in 1..Len(verification_info[i].test_cases) :
                LET c == verification_info[i].test_cases[k]
                IN  /\ c.has_label
                    /\ strip(c.label) # <<>>
                    /\ c.label # <<"minimal">>
                    /\ c.label \in Range(label_schedule(epoch))
C12_Witness ==
    /\ Gated
    /\ epoch = 4
    /\ supplied[1].test_cases = <<MinimalPass, EdgePass>>
    /\ verification_info[1].test_cases = <<EdgePass>>

\* the label the scorer looks up: "minimal" for a test case without label,
\* else the label without its surrounding whitespace
ResolvedLabel(c) == IF c.has_label THEN strip(c.label) ELSE <<"minimal">>

WeightedLabels == {<<"basic">>, <<"medium">>, <<"high">>, <<"edge">>}

\* the trimmed i-th lines agree on the common prefix of two line lists
PrefixMatch(actual, expected) ==
    \A j \in 1..Min(Len(actual), Len(expected)) : strip(actual[j]) = strip(expected[j])

\* snippet `code` exits 0 on the test case and its output satisfies it
Satisfies(code, c) ==
    LET process == subprocess_run(code, c.input)
    IN  /\ ~process.timeout
        /\ process.returncode = 0
        /\ PrefixMatch(split(strip(process.stdout)), split(c.output))

\* the sum of the weights (0.25 each, one quarter) of the satisfied test cases
\* with a weighted label
ExpectedValue(code, cases) ==
    Cardinality({k \in 1..Len(cases) :
                    Satisfies(code, cases[k]) /\ ResolvedLabel(cases[k]) \in WeightedLabels})

\* C13: the value a script payload computes is the sum, over the test cases
\* its snippet satisfies, of the weight of the resolved label (0.25 for basic,
\* medium, high, edge, 0 otherwise); a test case whose subprocess exits
\* nonzero is never counted.
C13_ScriptValue ==
    \A i \in 1..Len(scripts) :
        LET r == evaluate_code(scripts[i].code, scripts[i].test_cases)
            expected == ExpectedValue(scripts[i].code, scripts[i].test_cases)
        IN  ~r.raised =>
               /\ r.passed_weight = expected
               /\ execution_text(scripts[i]) = str(expected)
               /\ (task[i] = "done" /\ resp[i] = execution_text(scripts[i]))
                     => result[i] = expected
               /\ (\A k \in 1..Len(scripts[i].test_cases) :
                      subprocess_run(scripts[i].code,
                                     scripts[i].test_cases[k].input).returncode # 0)
                     => r.passed_weight = 0
C13_Witness ==
    /\ pc = "done"
    /\ entry = "score"
    /\ scripts = <<[code |-> <<"cat">>, test_cases |-> <<PaddedPass, EdgePass>>]>>
    /\ resp = <<str(2)>>
    /\ rewards = <<2>>

\* task i's run request is over: it returned or it threw
Completed(i) == task[i] \in {"done", "raised"}

\* C14: the dispatcher goes past the gather (to the kill, to the return of
\* the rewards, or back to the facade) only after all N run requests have
\* completed.
C14_GatherBarrier ==
    /\ (pc \in {"kill", "done"} /\ sbx # "none") => \A i \in Tasks : Completed(i)
    /\ kills > 0 => \A i \in Tasks : Completed(i)

\* C15: within one call the context is created exactly once, before any run
\* request, and is never used after its destruction: no request is issued or
\* in flight once kill has been issued, and kill is never issued twice.
C15_ContextLifetime ==
    /\ creates <= 1
    /\ kills <= 1
    /\ runs > 0 => (creates = 1 /\ sbx # "none")
    /\ pc \in {"gather", "kill"} => creates = 1
    /\ \A i \in Tasks : task[i] = "inflight" => (sbx = "live" /\ kills = 0)
    /\ kills > 0 => (runs = Len(task) /\ \A i \in Tasks : task[i] \notin {"new", "inflight"})
C15_Witness ==
    /\ pc = "done"
    /\ sbx = "killed"
    /\ creates = 1
    /\ kills = 1
    /\ runs = 3

\* C16: a request whose textual result is no floating-point number (None
\* included) is rewarded 0.0, every other request keeps the value of its own
\* result, and a dispatch whose requests all returned still issues kill and
\* returns one reward per script.
Parsed(text) == IF float(text).exc = "none" THEN float(text).value ELSE 0
C16_ParseFailureIsZero ==
    /\ \A i \in Tasks :
          task[i] = "done"
             => /\ float(resp[i]).exc # "none" => result[i] = 0
                /\ float(resp[i]).exc = "none" => result[i] = float(resp[i]).value
    /\ (pc = "done" /\ Tasks # {} /\ \A i \in Tasks : task[i] = "done")
          => /\ kills = 1
             /\ Len(rewards) = N
             /\ ~kill_raised
                   => /\ sbx = "killed"
                      /\ \A i \in Tasks : rewards[i] = Parsed(resp[i])
C16_Witness ==
    /\ pc = "done"
    /\ sbx = "killed"
    /\ N = 3
    /\ resp[1] = None
    /\ resp[3] = <<"x">>
    /\ resp[2] = str(1)
    /\ rewards = <<0, 1, 0>>

\* C17: when the sandbox capability is unavailable, the curriculum-aware entry
\* point raises the configuration error and leaves every test_cases list
\* exactly as the caller supplied it.
C17_CapabilityFailsFast ==
    (entry = "curriculum" /\ pc = "done" /\ ~available)
        => /\ outcome = "ImportError"
           /\ verification_info = supplied

\* C18: a test case whose subprocess exits with code 0 passes if and only if
\* the trimmed actual and expected lines agree at every index below the
\* shorter of the two line counts; the lines beyond that never change the
\* verdict, and the verdict is what a one-case script is rewarded for.
ActualLines(code, c) == split(strip(subprocess_run(code, c.input).stdout))
ExitedZero(code, c) ==
    /\ ~subprocess_run(code, c.input).timeout
    /\ subprocess_run(code, c.input).returncode = 0
C18_ZipPrefixVerdict ==
    \A i \in 1..Len(scripts) :
       LET code == scripts[i].code
           cases == scripts[i].test_cases
       IN  /\ \A k \in 1..Len(cases) :
                ExitedZero(code, cases[k])
                   => (case_passed(code, cases[k])
                          <=> PrefixMatch(ActualLines(code, cases[k]),
                                          split(cases[k].output)))
           /\ (/\ Len(cases) = 1
               /\ ExitedZero(code, cases[1])
               /\ ResolvedLabel(cases[1]) \in WeightedLabels
               /\ i \in Tasks
               /\ task[i] = "done"
               /\ resp[i] = execution_text(scripts[i]))
                 => (result[i] = 1
                        <=> PrefixMatch(ActualLines(code, cases[1]), split(cases[1].output)))
C18_Witness ==
    /\ DispatchReturned
    /\ entry = "score"
    /\ Len(scripts) = 1
    /\ scripts[1].code = <<"cat">>
    /\ scripts[1].test_cases = <<EdgePass, ShortPass>>
    /\ Len(ActualLines(<<"cat">>, EdgePass)) > Len(split(EdgePass.output))
    /\ Len(ActualLines(<<"cat">>, ShortPass)) < Len(split(ShortPass.output))
    /\ resp = <<str(2)>>
    /\ rewards = <<2>>

\* C19: at every epoch >= 3 the gate removes only test cases the scorer gives
\* weight 0, so a curriculum-aware call returns the rewards a plain call
\* returns for the same inputs, whatever the label strings are.
C19_GateNeutralWhenUnlocked ==
    (DispatchReturned /\ entry = "curriculum" /\ epoch >= 3)
        => \A i \in 1..Len(scripts) :
              resp[i] = execution_text(scripts[i])
                 => rewards[i]
                      = run_script(execution_text(build_script(scripts[i].code, supplied[i])))

\* C20: the gate is a shrinking, order-preserving, idempotent filter of the
\* caller's verification_info: a call keeps, in their order, the test cases of
\* the list it was given whose label is scheduled, filtering the result again
\* at the same epoch changes nothing, and after gate applications at epochs
\* e1..ek what remains is the original list restricted to the labels of
\* label_schedule(min(e1..ek)).
Scheduled(cases, e) ==
    SelectSeq(cases, LAMBDA c : c.has_label /\ c.label \in Range(label_schedule(e)))
C20_GateAlgebra ==
    /\ min_epoch <= MaxEpoch
          => \A i \in 1..Len(verification_info) :
                verification_info[i].test_cases
                   = Scheduled(original[i].test_cases, min_epoch)
    /\ Gated
          => /\ \A i \in 1..Len(verification_info) :
                   /\ verification_info[i].test_cases
                         = Scheduled(supplied[i].test_cases, epoch)
                   /\ Len(verification_info[i].test_cases) <= Len(supplied[i].test_cases)
                   /\ verification_info[i].language = supplied[i].language
             /\ curriculum_filter(verification_info, label_schedule(epoch))
                   = verification_info
C20_Witness ==
    /\ Gated
    /\ min_epoch = 0
    /\ epoch = MaxEpoch
    /\ original[1].test_cases = <<BasicPass, EdgePass>>
    /\ supplied[1].test_cases = <<BasicPass>>
    /\ verification_info[1].test_cases = <<BasicPass>>

====
